---- MODULE Spec2Model ----
(***************************************************************************)
(* A model of the svg-image-extractor library: isValidSvg/extractImages    *)
(* (src/src/lib/svgExtractor.js), fetchSvgFromUrl, generateZip,            *)
(* generateFilename and isValidFile (src/src/lib/validators.js),           *)
(* downloadSingleImage (src/unnamed/part_002) and handleError              *)
(* (src/unnamed/part_003); each alone, in a session that packages and      *)
(* downloads what was extracted, and as two calls in flight.               *)
(*                                                                         *)
(* Strings the code splits or inspects are sequences of tokens: each of    *)
(* the separator characters ":" ";" "," "/" is a token of its own and      *)
(* every other token is a maximal run of non-separator characters, so      *)
(* split(), startsWith('data:image/') and [i] are computed as the code     *)
(* computes them.  The JavaScript values undefined and null are the        *)
(* one-token sequences Undefined and Null, which no string equals.         *)
(***************************************************************************)
EXTENDS Integers, Sequences, FiniteSets, TLC

VARIABLES
    \* extractImages(svgContent)
    svgContent,     \* the argument
    now,            \* Date.now() when the call starts
    tick,           \* milliseconds the clock advances per image element
    epc,            \* "start" | "done"
    eresult,        \* the call's outcome
    cresult,        \* the outcome of countImages(svgContent)
    \* fetchSvgFromUrl(url, {timeout, retries})
    urlValid,       \* whether isValidUrl(url)
    retries,        \* options.retries
    fpc,            \* the call's position
    attempt,        \* the loop variable
    lastError,      \* the variable lastError
    timer,          \* the attempt's timeout timer: "none" | "armed" | "cleared" | "fired"
    timers,         \* the state of the timeout timer of every attempt started, in order
    elapsed,        \* whether `timeout` ms have passed since the attempt started
    response,       \* the response the attempt's fetch resolved with
    fetches,        \* number of fetch() calls issued
    waits,          \* the backoff waits started, in ms, in order
    attemptErrors,  \* the error each failed attempt ended with, in order
    fresult,        \* the call's outcome
    \* generateZip(images, progressCallback)
    images,         \* the argument
    hasCallback,    \* whether progressCallback was given
    zpc,            \* the call's position
    zipEntries,     \* the archive's entries, in insertion order
    warnings,       \* the original indexes console.warn reported
    percents,       \* the metadata.percent values generateAsync has emitted, in tenths
    progressCalls,  \* the values progressCallback received, in tenths of a percent
    logged,         \* the message console.error logged in the catch clause
    zresult,        \* the call's outcome
    \* isValidFile(file), handleError(error), generateFilename(image, index)
    util,           \* which of the three is called
    upc,            \* "start" | "done"
    file,           \* the argument of isValidFile
    fileResult,     \* what isValidFile returned
    caught,         \* the argument of handleError
    hresult,        \* the outcome of handleError
    fnImage,        \* the first argument of generateFilename
    fnIndex,        \* the second argument of generateFilename
    filename,       \* what generateFilename returned
    \* a session: extractImages, then generateZip and downloadSingleImage on
    \* the records it returned, the records held by reference
    heap,           \* the record objects created so far; an object's address is its position
    lists,          \* the array each extractImages call returned, as addresses, in call order
    packaged,       \* which of the arrays generateZip was given, 0 before
    download,       \* the last downloadSingleImage call: the record's address and link.download
    \* two calls in flight
    suspended       \* the local variables of the call that is not running

evars == <<svgContent, now, tick, epc, eresult, cresult>>
fvars == <<urlValid, retries, fpc, attempt, lastError, timer, timers, elapsed, response,
           fetches, waits, attemptErrors, fresult>>
zvars == <<images, hasCallback, zpc, zipEntries, warnings, percents,
           progressCalls, logged, zresult>>
uvars == <<util, upc, file, fileResult, caught, hresult, fnImage, fnIndex, filename>>
svars == <<heap, lists, packaged, download>>
cvars == <<suspended>>
vars == <<evars, fvars, zvars, uvars, svars, cvars>>

----
\* Bounds of the model.
MaxImages == 3      \* image elements in a document
MaxClock == 1       \* Date.now() at the start of a call is in 0..MaxClock
MaxRetries == 3     \* options.retries is in -1..MaxRetries
MaxZipImages == 3   \* records handed to generateZip
MaxEvents == 2      \* progress events before the final one
MaxPosition == 5    \* generateFilename's index is in 0..MaxPosition
MaxCalls == 2       \* extractImages calls in a session
MaxSessionImages == 2   \* image elements in the document of a session

----
\* JavaScript strings as token sequences.
Undefined == <<"<undefined>">>
Null == <<"<null>">>
EmptyStr == <<>>

Falsy(v) == v = Undefined \/ v = Null \/ v = EmptyStr

\* a ?? b
OrNullish(a, b) == IF a \in {Undefined, Null} THEN b ELSE a

\* a || b
Or(a, b) == IF Falsy(a) THEN b ELSE a

\* s.startsWith(p)
StartsWith(s, p) == Len(s) >= Len(p) /\ SubSeq(s, 1, Len(p)) = p

\* The least position of sep in s, 0 when there is none.
IndexOf(s, sep) ==
    IF \E i \in 1..Len(s) : s[i] = sep
    THEN CHOOSE i \in 1..Len(s) : s[i] = sep /\ \A j \in 1..(i - 1) : s[j] # sep
    ELSE 0

\* s.split(sep): at least one piece, pieces may be empty.
RECURSIVE Split(_, _)
Split(s, sep) ==
    LET i == IndexOf(s, sep)
    IN  IF i = 0 THEN <<s>>
        ELSE <<SubSeq(s, 1, i - 1)>> \o Split(SubSeq(s, i + 1, Len(s)), sep)

\* arr[i], i counted from 0: undefined past the end.
At(arr, i) == IF i + 1 \in 1..Len(arr) THEN arr[i + 1] ELSE Undefined

DataImagePrefix == <<"data", ":", "image", "/">>

----
\* Reference values of image elements, as token sequences.
PngUrl == <<"data", ":", "image", "/", "png", ";", "base64", ",", "ABC123">>
GifUrl == <<"data", ":", "image", "/", "gif", ";", "base64", ",", "GIF000">>
ColonUrl == <<"data", ":", "image", "/", "x", ":", "y", ";", "base64", ",", "Q">>
ExternalUrl == <<"https", ":", "/", "/", "example.com", "/", "image.png">>
NoPayloadUrl == <<"data", ":", "image", "/", "png">>
EmptyPayloadUrl == <<"data", ":", "image", "/", "png", ";", "base64", ",">>

\* The number of characters of a token.
CharLen(tok) ==
    CASE tok \in {":", ";", ",", "/", "x", "y", "Q"} -> 1
      [] tok \in {"png", "gif"} -> 3
      [] tok \in {"data", "jpeg"} -> 4
      [] tok \in {"image", "https"} -> 5
      [] tok \in {"base64", "ABC123", "GIF000"} -> 6
      [] tok = "image.png" -> 9
      [] tok = "example.com" -> 11
      [] OTHER -> 1

\* s.length
RECURSIVE Length(_)
Length(s) == IF s = <<>> THEN 0 ELSE CharLen(Head(s)) + Length(Tail(s))

\* What img.getAttribute('href') and img.getAttribute('xlink:href') return.
HrefValues == {Null, EmptyStr, PngUrl, ColonUrl, ExternalUrl}
XlinkValues == {Null, GifUrl}
ImageElements == [href : HrefValues, xlink : XlinkValues]

RECURSIVE SeqsUpTo(_, _)
SeqsUpTo(S, n) ==
    IF n = 0 THEN {<<>>}
    ELSE LET shorter == SeqsUpTo(S, n - 1)
         IN  shorter \cup {Append(q, x) : q \in {r \in shorter : Len(r) = n - 1}, x \in S}

\* The svgContent argument: what the text is, whether DOMParser parses it
\* without a parsererror node, and the image elements of the parsed
\* document in document order (doc.querySelectorAll('image')).
\*   "null"   null or undefined          "empty"  ''
\*   "blank"  whitespace only            "other"  text without '<svg'
\*   "svg"    text containing '<svg'
Documents ==
    [text : {"null", "empty", "blank", "other"}, wellFormed : {FALSE}, elements : {<<>>}]
    \cup [text : {"svg"}, wellFormed : {FALSE}, elements : {<<>>}]
    \cup [text : {"svg"}, wellFormed : {TRUE}, elements : SeqsUpTo(ImageElements, MaxImages)]

\* Errors: the class name, the message, and the url and statusCode fields of
\* a FetchError ("null" and 0 where the field is null or missing).
NoError == [name |-> "none", message |-> "", url |-> "null", statusCode |-> 0]
\* The value of a variable never assigned.
UndefinedValue == [name |-> "undefined", message |-> "", url |-> "null", statusCode |-> 0]
\* new Error(message), new ParseError(message)
Error(message) == [name |-> "Error", message |-> message, url |-> "null", statusCode |-> 0]
ParseError(message) ==
    [name |-> "ParseError", message |-> message, url |-> "null", statusCode |-> 0]

ValidationResult(valid, error) == [valid |-> valid, error |-> error]

\* The validation without trim().
isValidSvgNoTrim(content) ==
    IF content.text \in {"null", "empty"}
    THEN ValidationResult(FALSE, "SVG content is empty")
    ELSE IF content.text # "svg"
    THEN ValidationResult(FALSE, "Content does not appear to be valid SVG")
    ELSE ValidationResult(TRUE, "null")

isValidSvg(content) ==
    IF content.text \in {"null", "empty"} \/ content.text = "blank"
    THEN ValidationResult(FALSE, "SVG content is empty")
    ELSE IF content.text # "svg"
    THEN ValidationResult(FALSE, "Content does not appear to be valid SVG")
    ELSE ValidationResult(TRUE, "null")

\* The record with an id made of the clock reading alone.
ImageRecordClockId(href, index, ms) ==
    [ dataUrl |-> href,
      format  |-> At(Split(At(Split(href, ";"), 0), ":"), 1),
      index   |-> index,
      size    |-> (Length(Or(At(Split(href, ","), 1), EmptyStr)) * 3) \div 4,
      id      |-> <<"img-", ms, "-", 0>> ]

\* The record extractImages pushes for an element whose reference is href,
\* at forEach index `index`, with Date.now() = ms.
ImageRecord(href, index, ms) ==
    [ dataUrl |-> href,
      format  |-> At(Split(At(Split(href, ";"), 0), ":"), 1),
      index   |-> index,
      size    |-> (Length(Or(At(Split(href, ","), 1), EmptyStr)) * 3) \div 4,
      id      |-> <<"img-", ms, "-", index>> ]

\* imageElements.forEach((img, index) => ...) from element number `index` on.
RECURSIVE forEachImage(_, _, _, _)
forEachImage(elements, index, t0, dt) ==
    IF index >= Len(elements) THEN <<>>
    ELSE LET img == elements[index + 1]
             href == Or(img.href, img.xlink)
         IN  (IF ~Falsy(href) /\ StartsWith(href, DataImagePrefix)
              THEN <<ImageRecord(href, index, t0 + dt * index)>>
              ELSE <<>>)
             \o forEachImage(elements, index + 1, t0, dt)

Returned(value) == [status |-> "returned", error |-> NoError, value |-> value]
Thrown(error) == [status |-> "thrown", error |-> error, value |-> <<>>]
Pending == [status |-> "pending", error |-> NoError, value |-> <<>>]

extractImages(content, t0, dt) ==
    LET validation == isValidSvg(content)
    IN  IF ~validation.valid THEN Thrown(Error(validation.error))
        ELSE IF ~content.wellFormed
        THEN Thrown(ParseError("Failed to parse SVG content. The SVG may be malformed."))
        ELSE Returned(forEachImage(content.elements, 0, t0, dt))

\* A count that reports a failure as -1.
countImagesMinusOne(content, t0, dt) ==
    LET r == extractImages(content, t0, dt)
    IN  IF r.status = "returned" THEN Len(r.value) ELSE -1

countImages(content, t0, dt) ==
    LET r == extractImages(content, t0, dt)
    IN  IF r.status = "returned" THEN Len(r.value) ELSE 0

ExtractInit ==
    /\ svgContent \in Documents
    /\ now \in 0..MaxClock
    /\ tick \in {0, 1}
    /\ epc = "start"
    /\ eresult = Pending
    /\ cresult = Pending

ExtractIdle ==
    /\ svgContent = [text |-> "null", wellFormed |-> FALSE, elements |-> <<>>]
    /\ now = 0
    /\ tick = 0
    /\ epc = "idle"
    /\ eresult = Pending
    /\ cresult = Pending

\* One call of extractImages(svgContent).
ExtractCall ==
    /\ epc = "start"
    /\ eresult' = extractImages(svgContent, now, tick)
    /\ epc' = "done"
    /\ UNCHANGED <<svgContent, now, tick, cresult, fvars, zvars, uvars, svars, cvars>>

\* One call of countImages(svgContent).
CountCall ==
    /\ epc = "start"
    /\ cresult' = Returned(countImages(svgContent, now, tick))
    /\ epc' = "counted"
    /\ UNCHANGED <<svgContent, now, tick, eresult, fvars, zvars, uvars, svars, cvars>>


----
\* fetchSvgFromUrl

INVALID_URL == "Please enter a valid URL starting with http:// or https://"
CORS_ERROR ==
    "Unable to fetch from URL due to CORS restrictions. The server must allow cross-origin requests."
TIMEOUT_ERROR == "Request timed out. Please try again."
FETCH_FAILED == "Failed to fetch SVG from URL. Please check the URL and try again."
PARSE_ERROR == "Failed to parse SVG content. Please ensure it is valid SVG."
NETWORK_ERROR == "Network error occurred. Please check your connection and try again."
ZIP_GENERATION_FAILED ==
    "Failed to generate ZIP file. Please try downloading images individually."

\* new ValidationError(message, 'url'), new FetchError(message, url, statusCode)
ValidationError(message) ==
    [name |-> "ValidationError", message |-> message, url |-> "null", statusCode |-> 0]
FetchError(message, url, statusCode) ==
    [name |-> "FetchError", message |-> message, url |-> url, statusCode |-> statusCode]

\* What fetch() and response.text() reject with.
TypeError(message) ==
    [name |-> "TypeError", message |-> message, url |-> "null", statusCode |-> 0]
AbortError ==
    [name |-> "AbortError", message |-> "The user aborted a request.", url |-> "null",
     statusCode |-> 0]

\* The responses fetch() resolves with: status, statusText and the message
\* `HTTP ${status}: ${statusText}` built from them.
Responses ==
    { [status |-> 200, ok |-> TRUE, http |-> "HTTP 200: OK"],
      [status |-> 404, ok |-> FALSE, http |-> "HTTP 404: Not Found"],
      [status |-> 403, ok |-> FALSE, http |-> "HTTP 403: CORS request rejected"] }
NoResponse == [status |-> 0, ok |-> FALSE, http |-> ""]

\* Rejections of the network layer other than an abort: Chromium's
\* TypeError "Failed to fetch", WebKit's TypeError "Load failed".
NetworkErrors == {TypeError("Failed to fetch"), TypeError("Load failed")}

\* Response bodies, as token sequences.
SvgBody == <<"<svg", ">", "</svg>">>
HtmlBody == <<"<html", ">", "</html>">>
Bodies == {SvgBody, HtmlBody}

\* message.includes(needle), for the messages and needles of this model.
Includes(message, needle) ==
    CASE needle = "CORS" ->
            message \in {CORS_ERROR, "HTTP 403: CORS request rejected",
                         "CORS policy blocked", "CORS preflight timeout"}
      [] needle = "cors" ->
            message \in {"cors failure"}
      [] needle = "timeout" ->
            message \in {"Request timeout", "CORS preflight timeout"}
      [] needle = "Timeout" ->
            message \in {"Timeout exceeded"}
      [] needle = "fetch" ->
            message \in {CORS_ERROR, FETCH_FAILED, "Failed to fetch"}
      [] OTHER -> FALSE

\* The content check left out.
IncludesSvgAlways(content) == TRUE

\* content.includes('<svg')
IncludesSvg(content) == \E i \in 1..Len(content) : content[i] = "<svg"

\* The loop with its bound off by one.
LoopConditionStrict(a, r) == a < r

\* The for loop's condition.
LoopCondition(a, r) == a <= r

\* The inner catch clause: what it throws for the error it caught.
InnerCatch(error) ==
    IF error.name = "AbortError" THEN FetchError(TIMEOUT_ERROR, "url", 0)
    ELSE IF error.name = "TypeError" /\ Includes(error.message, "fetch")
    THEN FetchError(CORS_ERROR, "url", 0)
    ELSE error

\* The outer catch clause's test without its CORS half.
NoRetryValidationOnly(error) == error.name = "ValidationError"

\* The outer catch clause's test: errors that are never retried.
NoRetry(error) == error.name = "ValidationError" \/ Includes(error.message, "CORS")

\* Whether the outer catch clause waits and continues.
RetryCondition(a, r) == a < r

\* A backoff that grows by 1000 ms per attempt.
BackoffDelayLinear(a) == 1000 * (a + 1)

\* The backoff wait after failed attempt a, in ms.
BackoffDelay(a) == 1000 * 2 ^ a

\* clearTimeout without effect.
clearTimeoutNoop(t) == t

\* clearTimeout(timeoutId) on a timer in state t: a pending timer is
\* cancelled, one that has run its callback is left as it is.
clearTimeout(t) == IF t = "armed" THEN "cleared" ELSE t

\* The timers after clearTimeout on the one of the current attempt.
ClearCurrent(ts) == [ts EXCEPT ![Len(ts)] = clearTimeout(@)]

FetchInit ==
    /\ urlValid \in BOOLEAN
    /\ retries \in -1..MaxRetries
    /\ fpc = "start"
    /\ attempt = 0
    /\ lastError = UndefinedValue
    /\ timer = "none"
    /\ timers = <<>>
    /\ elapsed = FALSE
    /\ response = NoResponse
    /\ fetches = 0
    /\ waits = <<>>
    /\ attemptErrors = <<>>
    /\ fresult = Pending

FetchIdle ==
    /\ urlValid = FALSE
    /\ retries = 0
    /\ fpc = "idle"
    /\ attempt = 0
    /\ lastError = UndefinedValue
    /\ timer = "none"
    /\ timers = <<>>
    /\ elapsed = FALSE
    /\ response = NoResponse
    /\ fetches = 0
    /\ waits = <<>>
    /\ attemptErrors = <<>>
    /\ fresult = Pending

\* The head of the for loop with attempt = a: either the body starts (a
\* controller and its timer are created and fetch() is called) or the loop
\* ends and lastError is thrown.
LoopHead(a, err) ==
    /\ attempt' = a
    /\ IF LoopCondition(a, retries)
       THEN /\ timer' = "armed"
            /\ timers' = Append(timers, "armed")
            /\ elapsed' = FALSE
            /\ response' = NoResponse
            /\ fetches' = fetches + 1
            /\ fpc' = "awaitFetch"
            /\ fresult' = fresult
       ELSE /\ fresult' = Thrown(err)
            /\ fpc' = "done"
            /\ UNCHANGED <<timer, timers, elapsed, response, fetches>>

\* fetchSvgFromUrl(url, {retries}) up to its first await.
FetchCall ==
    /\ fpc = "start"
    /\ IF ~urlValid
       THEN /\ fresult' = Thrown(ValidationError(INVALID_URL))
            /\ fpc' = "done"
            /\ UNCHANGED <<attempt, timer, timers, elapsed, response, fetches>>
       ELSE LoopHead(0, lastError)
    /\ UNCHANGED <<urlValid, retries, lastError, waits, attemptErrors,
                   evars, zvars, uvars, svars, cvars>>

\* An error thrown inside the inner try: the inner catch clears the timer
\* and rethrows, the outer catch records the error and then rethrows it,
\* starts the backoff wait, or falls through to the loop's increment.
AttemptFails(error) ==
    LET thrown == InnerCatch(error)
    IN  /\ lastError' = thrown
        /\ attemptErrors' = Append(attemptErrors, thrown)
        /\ timers' = ClearCurrent(timers)
        /\ IF NoRetry(thrown)
           THEN /\ fresult' = Thrown(thrown)
                /\ fpc' = "done"
                /\ timer' = "cleared"
                /\ UNCHANGED <<attempt, elapsed, fetches, waits>>
           ELSE IF RetryCondition(attempt, retries)
           THEN /\ waits' = Append(waits, BackoffDelay(attempt))
                /\ fpc' = "backoff"
                /\ timer' = "cleared"
                /\ UNCHANGED <<attempt, elapsed, fetches, fresult>>
           ELSE /\ attempt' = attempt + 1
                /\ fresult' = Thrown(thrown)
                /\ fpc' = "done"
                /\ timer' = "cleared"
                /\ UNCHANGED <<elapsed, fetches, waits>>

\* `timeout` ms have passed since an attempt started: its timer, if still
\* pending, runs its callback, controller.abort(), on the controller of
\* that attempt.  The attempt is the one in flight or an earlier one whose
\* timer is still pending.
TimeoutElapses ==
    /\ \E k \in 1..Len(timers) :
        /\ timers' = [timers EXCEPT ![k] = IF @ = "armed" THEN "fired" ELSE @]
        /\ IF k = Len(timers) /\ fpc \in {"awaitFetch", "awaitText"}
           THEN /\ ~elapsed
                /\ elapsed' = TRUE
                /\ timer' = IF timer = "armed" THEN "fired" ELSE timer
           ELSE /\ timers[k] = "armed"
                /\ UNCHANGED <<elapsed, timer>>
    /\ UNCHANGED <<urlValid, retries, fpc, attempt, lastError, response, fetches,
                   waits, attemptErrors, fresult, evars, zvars, uvars, svars, cvars>>

\* await fetch(...) resolves with a response: the timer is cleared, and a
\* response that is not ok throws.
FetchResolves ==
    /\ fpc = "awaitFetch"
    /\ timer = "armed"
    /\ \E r \in Responses :
        /\ response' = r
        /\ IF r.ok
           THEN /\ timer' = "cleared"
                /\ timers' = ClearCurrent(timers)
                /\ fpc' = "awaitText"
                /\ UNCHANGED <<attempt, lastError, elapsed, fetches, waits,
                               attemptErrors, fresult>>
           ELSE AttemptFails(FetchError(r.http, "url", r.status))
    /\ UNCHANGED <<urlValid, retries, evars, zvars, uvars, svars, cvars>>

\* await fetch(...) rejects: with an AbortError once the controller has
\* aborted, with a network error otherwise.
FetchRejects ==
    /\ fpc = "awaitFetch"
    /\ \E e \in (IF timers[Len(timers)] = "fired" THEN {AbortError}
                ELSE NetworkErrors) :
        AttemptFails(e)
    /\ UNCHANGED <<urlValid, retries, response, evars, zvars, uvars, svars, cvars>>

\* await response.text() resolves.
TextResolves ==
    /\ fpc = "awaitText"
    /\ \E content \in Bodies :
        IF IncludesSvg(content)
        THEN /\ fresult' = [status |-> "returned", error |-> NoError, value |-> content]
             /\ fpc' = "done"
             /\ UNCHANGED <<attempt, lastError, timer, timers, elapsed, fetches,
                            waits, attemptErrors>>
        ELSE AttemptFails(FetchError("URL did not return SVG content", "url",
                                     response.status))
    /\ UNCHANGED <<urlValid, retries, response, evars, zvars, uvars, svars, cvars>>

\* await response.text() rejects: the connection broke while the body was
\* read.
TextRejects ==
    /\ fpc = "awaitText"
    /\ \E e \in {TypeError("Failed to fetch"), TypeError("network error")} :
        AttemptFails(e)
    /\ UNCHANGED <<urlValid, retries, response, evars, zvars, uvars, svars, cvars>>

\* The backoff wait ends: `continue`, the loop's increment and its head.
BackoffEnds ==
    /\ fpc = "backoff"
    /\ LoopHead(attempt + 1, lastError)
    /\ UNCHANGED <<urlValid, retries, lastError, waits, attemptErrors,
                   evars, zvars, uvars, svars, cvars>>


----
\* generateZip and generateFilename

PngFormat == <<"image", "/", "png">>
GifFormat == <<"image", "/", "gif">>

\* The records handed to generateZip; {} has neither field.
ZipRecords ==
    { [dataUrl |-> PngUrl, format |-> PngFormat],
      [dataUrl |-> GifUrl, format |-> GifFormat],
      [dataUrl |-> PngUrl, format |-> Undefined],
      [dataUrl |-> NoPayloadUrl, format |-> PngFormat],
      [dataUrl |-> EmptyPayloadUrl, format |-> PngFormat],
      [dataUrl |-> Undefined, format |-> Undefined] }

\* The images argument: null, undefined or an array.
ImagesArguments ==
    [kind : {"null", "undefined"}, items : {<<>>}]
    \cup [kind : {"array"}, items : SeqsUpTo(ZipRecords, MaxZipImages)]

\* The metadata.percent values generateAsync reports before the last one,
\* in tenths of a percent.
Percents == {125, 500, 995}

\* Math.round of a non-negative value given in tenths, in tenths.
MathRound(t) == ((t + 5) \div 10) * 10

\* The filename numbered from 0.
generateFilenameZeroBased(image, index) ==
    LET format == Or(image.format, PngFormat)
        ext == Or(At(Split(format, "/"), 1), <<"png">>)
    IN  <<"image-", index, ".", ext>>

\* generateFilename(image, index): `image-${index + 1}.${ext}`
generateFilename(image, index) ==
    LET format == Or(image.format, PngFormat)
        ext == Or(At(Split(format, "/"), 1), <<"png">>)
    IN  <<"image-", index + 1, ".", ext>>

\* img.dataUrl?.split(',')[1]
Base64Data(img) ==
    IF img.dataUrl \in {Undefined, Null} THEN Undefined
    ELSE At(Split(img.dataUrl, ","), 1)

\* The filter's predicate.
HasPayload(img) ==
    LET base64Data == Base64Data(img)
    IN  ~(Falsy(base64Data) \/ Length(base64Data) = 0)

\* images.filter(...): the records kept, in order.
RECURSIVE validImages(_)
validImages(items) ==
    IF items = <<>> THEN <<>>
    ELSE (IF HasPayload(Head(items)) THEN <<Head(items)>> ELSE <<>>)
         \o validImages(Tail(items))

\* The original indexes the filter warns about, in order.
RECURSIVE skipped(_, _)
skipped(items, index) ==
    IF index >= Len(items) THEN <<>>
    ELSE (IF HasPayload(items[index + 1]) THEN <<>> ELSE <<index>>)
         \o skipped(items, index + 1)

\* zip.file(name, data, {base64: true}): a name already in the archive
\* keeps its place and takes the new data.
ZipFile(entries, name, data) ==
    IF \E i \in 1..Len(entries) : entries[i].name = name
    THEN [i \in 1..Len(entries) |->
            IF entries[i].name = name THEN [name |-> name, data |-> data]
            ELSE entries[i]]
    ELSE Append(entries, [name |-> name, data |-> data])

\* validImages.forEach((img, index) => zip.file(...)) from index on.
RECURSIVE addFiles(_, _, _)
addFiles(entries, valid, index) ==
    IF index >= Len(valid) THEN entries
    ELSE LET img == valid[index + 1]
         IN  addFiles(ZipFile(entries, generateFilename(img, index),
                              At(Split(img.dataUrl, ","), 1)),
                      valid, index + 1)

\* The test without its length half.
NoImagesNullOnly(arg) == arg.kind \in {"null", "undefined"}

\* The test that rejects a missing or empty images argument.
NoImages(arg) == arg.kind \in {"null", "undefined"} \/ Len(arg.items) = 0

\* A catch clause that throws the error it caught again.
CatchClauseRethrow(error) == error

\* What the catch clause throws for the error it caught.
CatchClause(error) == Error(ZIP_GENERATION_FAILED)

\* The percent passed on as reported.
ProgressUnrounded(percent) == percent

\* What the progress callback of generateAsync passes on.
Progress(percent) == MathRound(percent)

ZipInit ==
    /\ images \in ImagesArguments
    /\ hasCallback \in BOOLEAN
    /\ zpc = "start"
    /\ zipEntries = <<>>
    /\ warnings = <<>>
    /\ percents = <<>>
    /\ progressCalls = <<>>
    /\ logged = "none"
    /\ zresult = Pending

ZipIdle ==
    /\ images = [kind |-> "null", items |-> <<>>]
    /\ hasCallback = FALSE
    /\ zpc = "idle"
    /\ zipEntries = <<>>
    /\ warnings = <<>>
    /\ percents = <<>>
    /\ progressCalls = <<>>
    /\ logged = "none"
    /\ zresult = Pending

\* generateZip(images, progressCallback) up to its await.
ZipCall ==
    /\ zpc = "start"
    /\ IF NoImages(images)
       THEN /\ zresult' = Thrown(Error("No images provided for ZIP generation"))
            /\ zpc' = "done"
            /\ UNCHANGED <<zipEntries, warnings, logged>>
       ELSE LET valid == validImages(images.items)
            IN  /\ warnings' = skipped(images.items, 0)
                /\ IF Len(valid) = 0
                   THEN /\ logged' = "No valid images to include in ZIP"
                        /\ zresult' = Thrown(CatchClause(
                                          Error("No valid images to include in ZIP")))
                        /\ zpc' = "done"
                        /\ UNCHANGED zipEntries
                   ELSE /\ zipEntries' = addFiles(<<>>, valid, 0)
                        /\ zpc' = "generating"
                        /\ UNCHANGED <<logged, zresult>>
    /\ UNCHANGED <<images, hasCallback, percents, progressCalls, evars, fvars, uvars, svars, cvars>>

\* generateAsync reports progress: the callback passes the rounded percent
\* to progressCallback when there is one.
Report(percent) ==
    /\ percents' = Append(percents, percent)
    /\ progressCalls' = IF hasCallback THEN Append(progressCalls, Progress(percent))
                        ELSE progressCalls

\* A progress report before the last one.
ZipProgress ==
    /\ zpc = "generating"
    /\ Len(percents) < MaxEvents
    /\ \E p \in Percents :
        /\ \A i \in 1..Len(percents) : percents[i] <= p
        /\ Report(p)
    /\ UNCHANGED <<images, hasCallback, zpc, zipEntries, warnings, logged, zresult,
                   evars, fvars, uvars, svars, cvars>>

\* The last progress report, of 100 percent.
ZipLastProgress ==
    /\ zpc = "generating"
    /\ Report(1000)
    /\ zpc' = "generated"
    /\ UNCHANGED <<images, hasCallback, zipEntries, warnings, logged, zresult,
                   evars, fvars, uvars, svars, cvars>>

\* await zip.generateAsync(...) resolves with the blob.
ZipResolves ==
    /\ zpc = "generated"
    /\ zresult' = [status |-> "returned", error |-> NoError, value |-> <<"blob">>]
    /\ zpc' = "done"
    /\ UNCHANGED <<images, hasCallback, zipEntries, warnings, percents,
                   progressCalls, logged, evars, fvars, uvars, svars, cvars>>

\* await zip.generateAsync(...) rejects (an entry's data is not base64, the
\* blob cannot be built): the catch clause logs and replaces the error.
ZipRejects ==
    /\ zpc \in {"generating", "generated"}
    /\ logged' = "generateAsync failed"
    /\ zresult' = Thrown(CatchClause(Error("generateAsync failed")))
    /\ zpc' = "done"
    /\ UNCHANGED <<images, hasCallback, zipEntries, warnings, percents,
                   progressCalls, evars, fvars, uvars, svars, cvars>>

----
\* isValidFile, handleError and generateFilename: one call of one of them.

\* s.endsWith(suffix)
EndsWith(s, suffix) ==
    Len(s) >= Len(suffix) /\ SubSeq(s, Len(s) - Len(suffix) + 1, Len(s)) = suffix

\* File names, as token sequences in which "." is a token of its own.
FileNames ==
    { <<"test", ".", "svg">>, <<"test", ".", "png">>, <<"test", ".", "svg", ".", "png">>,
      <<"svg">>, <<"test", ".", "SVG">> }

FileTypes == {"image/svg+xml", "text/xml", "application/xml", "image/png", ""}

FileSizes == {100, 10485760, 10485761, 11534336}

\* The file argument: absent (null or undefined), or a File.
NoFile == [present |-> FALSE, size |-> 0, type |-> "", name |-> <<>>]
Files == {NoFile} \cup [present : {TRUE}, size : FileSizes, type : FileTypes, name : FileNames]

maxSize == 10 * 1024 * 1024
validTypes == {"image/svg+xml", "text/xml", "application/xml"}

\* The size test with >= for >.
isValidFileInclusive(f) ==
    IF ~f.present THEN ValidationResult(FALSE, "No file provided")
    ELSE IF f.size >= maxSize THEN ValidationResult(FALSE, "File size exceeds 10MB limit")
    ELSE IF f.type \notin validTypes /\ ~EndsWith(f.name, <<".", "svg">>)
    THEN ValidationResult(FALSE, "File must be an SVG file")
    ELSE ValidationResult(TRUE, "null")

isValidFile(f) ==
    IF ~f.present THEN ValidationResult(FALSE, "No file provided")
    ELSE IF f.size > maxSize THEN ValidationResult(FALSE, "File size exceeds 10MB limit")
    ELSE IF f.type \notin validTypes /\ ~EndsWith(f.name, <<".", "svg">>)
    THEN ValidationResult(FALSE, "File must be an SVG file")
    ELSE ValidationResult(TRUE, "null")

NoResult == ValidationResult(FALSE, "none")

\* The values handleError is given: instances of the error classes, and
\* null, undefined and a string, which are no objects with a message.
HandledMessages ==
    { "", "Invalid input", "Not found", "CORS policy blocked", "cors failure",
      "Request timeout", "Timeout exceeded", "CORS preflight timeout", "Failed to fetch" }
ErrorClasses == {"ValidationError", "FetchError", "ParseError", "TypeError", "Error"}
NonErrors == {"null", "undefined", "string"}
ThrownValues ==
    [name : ErrorClasses, message : HandledMessages, url : {"null"}, statusCode : {0}]
    \cup [name : NonErrors, message : {"<undefined>"}, url : {"null"}, statusCode : {0}]

\* A message that is '' or undefined.
NoMessage(message) == message \in {"", "<undefined>"}

\* What handleError returns or throws.
Message(text) == [status |-> "returned", error |-> NoError, value |-> text]
Failure(error) == [status |-> "thrown", error |-> error, value |-> ""]
NoOutcome == [status |-> "pending", error |-> NoError, value |-> ""]

\* The translation with the timeout test ahead of the CORS test.
handleErrorTimeoutFirst(error) ==
    IF error.name = "ValidationError" THEN Message(error.message)
    ELSE IF error.name = "FetchError"
    THEN IF Includes(error.message, "timeout") \/ Includes(error.message, "Timeout")
         THEN Message(TIMEOUT_ERROR)
         ELSE IF Includes(error.message, "CORS") \/ Includes(error.message, "cors")
         THEN Message(CORS_ERROR)
         ELSE Message(IF NoMessage(error.message) THEN FETCH_FAILED ELSE error.message)
    ELSE IF error.name = "ParseError" THEN Message(PARSE_ERROR)
    ELSE IF error.name = "TypeError" /\ Includes(error.message, "fetch")
    THEN Message(NETWORK_ERROR)
    ELSE IF error.name \in {"null", "undefined"}
    THEN Failure(TypeError("Cannot read properties of " \o error.name))
    ELSE Message(IF NoMessage(error.message)
                 THEN "An unexpected error occurred. Please try again."
                 ELSE error.message)

handleError(error) ==
    IF error.name = "ValidationError" THEN Message(error.message)
    ELSE IF error.name = "FetchError"
    THEN IF Includes(error.message, "CORS") \/ Includes(error.message, "cors")
         THEN Message(CORS_ERROR)
         ELSE IF Includes(error.message, "timeout") \/ Includes(error.message, "Timeout")
         THEN Message(TIMEOUT_ERROR)
         ELSE Message(IF NoMessage(error.message) THEN FETCH_FAILED ELSE error.message)
    ELSE IF error.name = "ParseError" THEN Message(PARSE_ERROR)
    ELSE IF error.name = "TypeError" /\ Includes(error.message, "fetch")
    THEN Message(NETWORK_ERROR)
    ELSE IF error.name \in {"null", "undefined"}
    THEN Failure(TypeError("Cannot read properties of " \o error.name))
    ELSE Message(IF NoMessage(error.message)
                 THEN "An unexpected error occurred. Please try again."
                 ELSE error.message)

\* The images generateFilename is given.
JpegFormat == <<"image", "/", "jpeg">>
WebpFormat == <<"image", "/", "webp">>
SvgXmlFormat == <<"image", "/", "svg+xml">>
FilenameImages ==
    [format : {PngFormat, JpegFormat, GifFormat, WebpFormat, SvgXmlFormat, Undefined}]

UtilIdle ==
    /\ util = "none"
    /\ upc = "idle"
    /\ file = NoFile
    /\ fileResult = NoResult
    /\ caught = NoError
    /\ hresult = NoOutcome
    /\ fnImage = [format |-> Undefined]
    /\ fnIndex = 0
    /\ filename = <<>>

UtilInit ==
    /\ upc = "start"
    /\ fileResult = NoResult
    /\ hresult = NoOutcome
    /\ filename = <<>>
    /\ \/ /\ util = "isValidFile"
          /\ file \in Files
          /\ caught = NoError
          /\ fnImage = [format |-> Undefined]
          /\ fnIndex = 0
       \/ /\ util = "handleError"
          /\ file = NoFile
          /\ caught \in ThrownValues
          /\ fnImage = [format |-> Undefined]
          /\ fnIndex = 0
       \/ /\ util = "generateFilename"
          /\ file = NoFile
          /\ caught = NoError
          /\ fnImage \in FilenameImages
          /\ fnIndex \in 0..MaxPosition

\* One call of handleError(caught).
HandleCall ==
    /\ upc = "start"
    /\ util = "handleError"
    /\ hresult' = handleError(caught)
    /\ upc' = "done"
    /\ UNCHANGED <<util, file, fileResult, caught, fnImage, fnIndex, filename,
                   evars, fvars, zvars, svars, cvars>>

\* One call of generateFilename(fnImage, fnIndex).
FilenameCall ==
    /\ upc = "start"
    /\ util = "generateFilename"
    /\ filename' = generateFilename(fnImage, fnIndex)
    /\ upc' = "done"
    /\ UNCHANGED <<util, file, fileResult, caught, hresult, fnImage, fnIndex,
                   evars, fvars, zvars, svars, cvars>>

\* One call of isValidFile(file).
FileCall ==
    /\ upc = "start"
    /\ util = "isValidFile"
    /\ fileResult' = isValidFile(file)
    /\ upc' = "done"
    /\ UNCHANGED <<util, file, caught, hresult, fnImage, fnIndex, filename,
                   evars, fvars, zvars, svars, cvars>>

----
\* A session: extractImages is called on a document, once or more; an array
\* it returned is given to generateZip; records are given to
\* downloadSingleImage.  Arrays and records are objects: the heap holds the
\* records, an array is the sequence of the addresses of its records.

\* No session and no second call.
NoDownload == [image |-> 0, filename |-> <<>>]
NoFrame == [kind |-> "none"]

SessionIdle ==
    /\ heap = <<>>
    /\ lists = <<>>
    /\ packaged = 0
    /\ download = NoDownload

ConcurrentIdle == suspended = NoFrame

Alone == SessionIdle /\ ConcurrentIdle

\* The documents of a session: image elements that are external, embedded
\* by href, embedded by xlink:href, or without a reference; and a text that
\* is no SVG.
SessionElements ==
    { [href |-> ExternalUrl, xlink |-> Null], [href |-> PngUrl, xlink |-> Null],
      [href |-> EmptyStr, xlink |-> GifUrl], [href |-> Null, xlink |-> Null] }
SessionDocuments ==
    [text : {"svg"}, wellFormed : {TRUE},
     elements : SeqsUpTo(SessionElements, MaxSessionImages)]
    \cup [text : {"other"}, wellFormed : {FALSE}, elements : {<<>>}]

\* Addresses taken from a pool that starts over with every call.
NewObjectsPooled(hp, n) == [i \in 1..n |-> i]

\* The addresses of n objects created by object literals: none is in use.
NewObjects(hp, n) == [i \in 1..n |-> Len(hp) + i]

\* The heap with records[i] stored at addrs[i].
Store(hp, addrs, records) ==
    LET last == IF Len(addrs) > 0 /\ addrs[Len(addrs)] > Len(hp)
                THEN addrs[Len(addrs)] ELSE Len(hp)
    IN  [a \in 1..last |->
            IF \E i \in 1..Len(addrs) : addrs[i] = a
            THEN records[CHOOSE i \in 1..Len(addrs) : addrs[i] = a]
            ELSE hp[a]]

\* The records an array of addresses holds.
Deref(hp, addrs) == [i \in 1..Len(addrs) |-> hp[addrs[i]]]

\* link.download of downloadSingleImage(image) without a custom filename.
downloadSingleImage(image) ==
    LET ext == Or(At(Split(image.format, "/"), 1), <<"png">>)
    IN  <<"image-", image.index + 1, ".", ext>>

SessionInit ==
    /\ svgContent \in SessionDocuments
    /\ now = 0
    /\ tick = 0
    /\ epc = "start"
    /\ eresult = Pending
    /\ cresult = Pending
    /\ heap = <<>>
    /\ lists = <<>>
    /\ packaged = 0
    /\ download = NoDownload

\* One call of extractImages(svgContent): the array and the records it
\* returns are new objects.
SessionExtract ==
    /\ epc \in {"start", "done"}
    /\ epc = "done" => eresult.status = "returned"
    /\ Len(lists) < MaxCalls
    /\ LET r == extractImages(svgContent, now, tick)
       IN  /\ eresult' = r
           /\ epc' = "done"
           /\ IF r.status = "returned"
              THEN LET addrs == NewObjects(heap, Len(r.value))
                   IN  /\ heap' = Store(heap, addrs, r.value)
                       /\ lists' = Append(lists, addrs)
              ELSE UNCHANGED <<heap, lists>>
    /\ UNCHANGED <<svgContent, now, tick, cresult, packaged, download,
                   fvars, zvars, uvars, cvars>>

\* generateZip is called with one of the arrays extractImages returned, and
\* without a progress callback.
SessionZip ==
    /\ zpc = "idle"
    /\ \E k \in 1..Len(lists) :
        /\ packaged' = k
        /\ images' = [kind |-> "array", items |-> Deref(heap, lists[k])]
        /\ hasCallback' = FALSE
    /\ zpc' = "start"
    /\ UNCHANGED <<zipEntries, warnings, percents, progressCalls, logged, zresult,
                   heap, lists, download, evars, fvars, uvars, cvars>>

\* One call of downloadSingleImage(image) with a record of one of the arrays.
SessionDownload ==
    /\ \E k \in 1..Len(lists) : \E i \in 1..Len(lists[k]) :
        download' = [image |-> lists[k][i],
                     filename |-> downloadSingleImage(heap[lists[k][i]])]
    /\ UNCHANGED <<heap, lists, packaged, evars, fvars, zvars, uvars, cvars>>

----
\* Two calls in flight, each a call of fetchSvgFromUrl or of generateZip.
\* One call runs at a time; between two steps (every step ends at an await,
\* a return or a throw) the event loop may go on with the other call.  The
\* variables of the model hold the local variables of the running call,
\* `suspended` holds those of the other one.

\* retries of the calls in flight.
ConcurrentRetries == {-1, 0, 1}

\* images of the calls in flight.
ConcurrentImages ==
    { [kind |-> "undefined", items |-> <<>>],
      [kind |-> "array", items |-> << [dataUrl |-> NoPayloadUrl, format |-> PngFormat] >>],
      [kind |-> "array", items |-> << [dataUrl |-> PngUrl, format |-> PngFormat],
                                      [dataUrl |-> GifUrl, format |-> GifFormat] >>] }

\* The local variables of the running call.
Frame ==
    [ urlValid |-> urlValid, retries |-> retries, fpc |-> fpc, attempt |-> attempt,
      lastError |-> lastError, timer |-> timer, timers |-> timers,
      elapsed |-> elapsed, response |-> response, fetches |-> fetches,
      waits |-> waits, attemptErrors |-> attemptErrors, fresult |-> fresult,
      images |-> images, hasCallback |-> hasCallback, zpc |-> zpc,
      zipEntries |-> zipEntries, warnings |-> warnings, percents |-> percents,
      progressCalls |-> progressCalls, logged |-> logged, zresult |-> zresult ]

\* The local variables of a call fetchSvgFromUrl(url, {retries: r}) and of a
\* call generateZip(imgs, cb) that has not started.
FetchFrame(u, r) ==
    [ urlValid |-> u, retries |-> r, fpc |-> "start", attempt |-> 0,
      lastError |-> UndefinedValue, timer |-> "none", timers |-> <<>>,
      elapsed |-> FALSE, response |-> NoResponse, fetches |-> 0,
      waits |-> <<>>, attemptErrors |-> <<>>, fresult |-> Pending,
      images |-> [kind |-> "null", items |-> <<>>], hasCallback |-> FALSE,
      zpc |-> "idle", zipEntries |-> <<>>, warnings |-> <<>>, percents |-> <<>>,
      progressCalls |-> <<>>, logged |-> "none", zresult |-> Pending ]
ZipFrame(imgs, cb) ==
    [ urlValid |-> FALSE, retries |-> 0, fpc |-> "idle", attempt |-> 0,
      lastError |-> UndefinedValue, timer |-> "none", timers |-> <<>>,
      elapsed |-> FALSE, response |-> NoResponse, fetches |-> 0,
      waits |-> <<>>, attemptErrors |-> <<>>, fresult |-> Pending,
      images |-> imgs, hasCallback |-> cb,
      zpc |-> "start", zipEntries |-> <<>>, warnings |-> <<>>, percents |-> <<>>,
      progressCalls |-> <<>>, logged |-> "none", zresult |-> Pending ]

\* A variable declared at module level: one for all calls, so the call that
\* resumes finds what the other call left in it.
ModuleVariable(own, left) == left

\* A variable declared with let inside the function (lastError, attempt):
\* every call has its own, so the call that resumes finds its own value.
LocalVariable(own, left) == own

ConcurrentInit ==
    /\ \/ FetchInit /\ retries \in ConcurrentRetries /\ ZipIdle
       \/ FetchIdle /\ ZipInit /\ images \in ConcurrentImages
    /\ suspended \in {FetchFrame(u, r) : u \in BOOLEAN, r \in ConcurrentRetries}
                     \cup {ZipFrame(i, cb) : i \in ConcurrentImages, cb \in BOOLEAN}

\* The event loop goes on with the other call.
Switch ==
    /\ suspended' = Frame
    /\ urlValid' = suspended.urlValid
    /\ retries' = suspended.retries
    /\ fpc' = suspended.fpc
    /\ attempt' = LocalVariable(suspended.attempt, attempt)
    /\ lastError' = LocalVariable(suspended.lastError, lastError)
    /\ timer' = suspended.timer
    /\ timers' = suspended.timers
    /\ elapsed' = suspended.elapsed
    /\ response' = suspended.response
    /\ fetches' = suspended.fetches
    /\ waits' = suspended.waits
    /\ attemptErrors' = suspended.attemptErrors
    /\ fresult' = suspended.fresult
    /\ images' = suspended.images
    /\ hasCallback' = suspended.hasCallback
    /\ zpc' = suspended.zpc
    /\ zipEntries' = suspended.zipEntries
    /\ warnings' = suspended.warnings
    /\ percents' = suspended.percents
    /\ progressCalls' = suspended.progressCalls
    /\ logged' = suspended.logged
    /\ zresult' = suspended.zresult
    /\ UNCHANGED <<evars, uvars, svars>>

----
\* The specifications: one call of one operation each.

InitExtract == ExtractInit /\ FetchIdle /\ ZipIdle /\ UtilIdle /\ Alone

NextExtract ==
    \/ ExtractCall
    \/ CountCall

SpecExtract == InitExtract /\ [][NextExtract]_vars

InitFetch == ExtractIdle /\ FetchInit /\ ZipIdle /\ UtilIdle /\ Alone

NextFetch ==
    \/ FetchCall
    \/ TimeoutElapses
    \/ FetchResolves
    \/ FetchRejects
    \/ TextResolves
    \/ TextRejects
    \/ BackoffEnds

SpecFetch == InitFetch /\ [][NextFetch]_vars

InitZip == ExtractIdle /\ FetchIdle /\ ZipInit /\ UtilIdle /\ Alone

NextZip ==
    \/ ZipCall
    \/ ZipProgress
    \/ ZipLastProgress
    \/ ZipResolves
    \/ ZipRejects

SpecZip == InitZip /\ [][NextZip]_vars

InitUtil == ExtractIdle /\ FetchIdle /\ ZipIdle /\ UtilInit /\ Alone

NextUtil ==
    \/ FileCall
    \/ HandleCall
    \/ FilenameCall

SpecUtil == InitUtil /\ [][NextUtil]_vars

\* Any one of the calls.
InitSession == SessionInit /\ FetchIdle /\ ZipIdle /\ UtilIdle /\ ConcurrentIdle

NextSession ==
    \/ SessionExtract
    \/ SessionZip
    \/ SessionDownload
    \/ ZipCall
    \/ ZipProgress
    \/ ZipLastProgress
    \/ ZipResolves
    \/ ZipRejects

SpecSession == InitSession /\ [][NextSession]_vars

InitConcurrent == ExtractIdle /\ ConcurrentInit /\ UtilIdle /\ SessionIdle

NextConcurrent ==
    \/ Switch
    \/ FetchCall
    \/ TimeoutElapses
    \/ FetchResolves
    \/ FetchRejects
    \/ TextResolves
    \/ TextRejects
    \/ BackoffEnds
    \/ ZipCall
    \/ ZipProgress
    \/ ZipLastProgress
    \/ ZipResolves
    \/ ZipRejects

SpecConcurrent == InitConcurrent /\ [][NextConcurrent]_vars

Init == InitExtract \/ InitFetch \/ InitZip \/ InitUtil

Next == NextExtract \/ NextFetch \/ NextZip \/ NextUtil

Spec == Init /\ [][Next]_vars

----
\* Vocabulary of the properties.

\* The reference the extractor reads from an element: href, else xlink:href.
Reference(img) == IF img.href \in {Null, EmptyStr} THEN img.xlink ELSE img.href

IsDataImage(ref) ==
    Len(ref) >= 4 /\ ref[1] = "data" /\ ref[2] = ":" /\ ref[3] = "image" /\ ref[4] = "/"

\* The positions (from 1) of the elements whose reference is embedded.
Embedded(elements) == {i \in 1..Len(elements) : IsDataImage(Reference(elements[i]))}

CorsFlagged(error) == Includes(error.message, "CORS")

Retriable(error) == error.name # "ValidationError" /\ ~CorsFlagged(error)

RECURSIVE SumSeq(_)
SumSeq(q) == IF q = <<>> THEN 0 ELSE Head(q) + SumSeq(Tail(q))

\* The text of a data URL after its first comma, empty when there is none.
PayloadOf(dataUrl) ==
    IF dataUrl \in {Undefined, Null} \/ IndexOf(dataUrl, ",") = 0 THEN <<>>
    ELSE SubSeq(dataUrl, IndexOf(dataUrl, ",") + 1, Len(dataUrl))

\* The records of the images argument that carry a payload, in order.
Survivors == SelectSeq(images.items, LAMBDA r : PayloadOf(r.dataUrl) # <<>>)

\* The text of a format after its "/", png without a format.
ExtensionOf(format) ==
    IF format = Undefined THEN <<"png">>
    ELSE SubSeq(format, IndexOf(format, "/") + 1, Len(format))

----
\* C1: an SVG with N embedded and M external image elements yields exactly
\* N records whose index fields are 0, 1, ..., N-1 in document order:
\* skipped elements consume no index.
C1_IndexesContiguous ==
    (epc = "done" /\ eresult.status = "returned") =>
        /\ Len(eresult.value) = Cardinality(Embedded(svgContent.elements))
        /\ \A k \in 1..Len(eresult.value) : eresult.value[k].index = k - 1

\* C2: with a retry budget R >= 0 and every attempt failing with an error
\* that is neither a ValidationError nor CORS-flagged, a failed call has made
\* exactly R + 1 fetch attempts and fails with the error of attempt R + 1.
C2_BudgetExhausted ==
    ( /\ fpc = "done"
      /\ urlValid
      /\ retries >= 0
      /\ fresult.status = "thrown"
      /\ \A i \in 1..Len(attemptErrors) : Retriable(attemptErrors[i]) ) =>
        /\ fetches = retries + 1
        /\ Len(attemptErrors) = retries + 1
        /\ fresult.error = attemptErrors[retries + 1]

C2_Witness ==
    /\ fpc = "done"
    /\ retries = 2
    /\ fetches = 3
    /\ fresult.status = "thrown"
    /\ \A i \in 1..Len(attemptErrors) : Retriable(attemptErrors[i])
    /\ attemptErrors[3] # attemptErrors[1]

\* C3: an invalid URL fails with the ValidationError before any fetch, and
\* an attempt that fails with a CORS-flagged error is the call's last: the
\* call has failed with that error, no backoff wait follows it and no
\* further fetch is made, whatever the budget.
C3_NeverRetried ==
    /\ (fpc = "done" /\ ~urlValid) =>
            /\ fresult = Thrown(ValidationError(INVALID_URL))
            /\ fetches = 0
            /\ waits = <<>>
    /\ \A i \in 1..Len(attemptErrors) :
            (attemptErrors[i].name = "ValidationError" \/ CorsFlagged(attemptErrors[i])) =>
                /\ i = Len(attemptErrors)
                /\ fpc = "done"
                /\ fresult = Thrown(attemptErrors[i])
                /\ fetches = i
                /\ Len(waits) = i - 1
                /\ timer # "armed"

C3_Witness ==
    /\ fpc = "done"
    /\ retries = 3
    /\ Len(attemptErrors) = 2
    /\ CorsFlagged(attemptErrors[2])
    /\ fetches = 2

\* C4: an attempt whose request (the wait for the headers or for the body)
\* has not completed `timeout` ms after the attempt started has been aborted.
C4_TimeoutAborts ==
    (fpc \in {"awaitFetch", "awaitText"} /\ elapsed) => timer = "fired"

\* C5: a non-empty images argument in which no record has a payload fails
\* with the message "No valid images to include in ZIP".
C5_NoValidImagesMessage ==
    ( /\ zpc = "done"
      /\ images.kind = "array"
      /\ Len(images.items) > 0
      /\ Survivors = <<>> ) =>
        /\ zresult.status = "thrown"
        /\ zresult.error.message = "No valid images to include in ZIP"

\* C6 as stated: content that is empty, blank or without '<svg' fails with a
\* ValidationError carrying the validation's error string.
C6_ThrowsValidationError ==
    (epc = "done" /\ svgContent.text # "svg") =>
        /\ eresult.status = "thrown"
        /\ eresult.error.name = "ValidationError"
        /\ eresult.error.message =
              IF svgContent.text = "other"
              THEN "Content does not appear to be valid SVG"
              ELSE "SVG content is empty"

\* C6 amended: content that is empty, blank or without '<svg' fails with a
\* plain Error (not a ValidationError) carrying the validation's error
\* string.
C6_ThrowsPlainError ==
    (epc = "done" /\ svgContent.text # "svg") =>
        /\ eresult.status = "thrown"
        /\ eresult.error.name = "Error"
        /\ eresult.error.message =
              IF svgContent.text = "other"
              THEN "Content does not appear to be valid SVG"
              ELSE "SVG content is empty"

C6_Witness ==
    /\ epc = "done"
    /\ svgContent.text = "blank"
    /\ eresult.status = "thrown"

\* C7: with at least one record carrying a payload, the records without one
\* are dropped and the call goes on; the archive holds one entry per
\* surviving record, in order, the k-th survivor (from 0) under the name
\* image-{k+1}.{extension} with its own payload.
C7_EntriesOfSurvivors ==
    (zpc # "start" /\ images.kind = "array" /\ Survivors # <<>>) =>
        /\ Len(zipEntries) = Len(Survivors)
        /\ \A k \in 1..Len(Survivors) :
              /\ zipEntries[k].name = <<"image-", k, ".", ExtensionOf(Survivors[k].format)>>
              /\ zipEntries[k].data = PayloadOf(Survivors[k].dataUrl)
        /\ Len(warnings) = Len(images.items) - Len(Survivors)
        /\ zresult.status = "thrown" => logged = "generateAsync failed"

C7_Witness ==
    /\ zpc = "generating"
    /\ Len(images.items) = 3
    /\ warnings = <<0>>
    /\ Len(zipEntries) = 2
    /\ zipEntries[1].name # zipEntries[2].name

\* C8: an empty array, null or undefined fails with "No images provided for
\* ZIP generation"; no entry is created and the callback is never invoked.
C8_NoImagesProvided ==
    (zpc # "start" /\ (images.kind \in {"null", "undefined"} \/ images.items = <<>>)) =>
        /\ zpc = "done"
        /\ zresult = Thrown(Error("No images provided for ZIP generation"))
        /\ zipEntries = <<>>
        /\ progressCalls = <<>>
        /\ logged = "none"

C8_Witness ==
    /\ zpc = "done"
    /\ images.kind = "array"
    /\ images.items = <<>>
    /\ hasCallback
    /\ zresult.status = "thrown"

C10_ExponentialBackoff ==
    /\ \A k \in 1..Len(waits) :
          waits[k] = IF k = 1 THEN 1000 ELSE 2 * waits[k - 1]
    /\ fpc = "backoff" => Len(waits) = fetches
    /\ fpc \in {"awaitFetch", "awaitText"} => Len(waits) = fetches - 1
    /\ (fpc = "done" /\ fetches > 0) => Len(waits) = fetches - 1
    /\ (fpc = "done" /\ retries >= 0 /\ fetches = retries + 1
          /\ fresult.status = "thrown") =>
            SumSeq(waits) = 1000 * (2 ^ retries - 1)

C10_Witness ==
    /\ fpc = "done"
    /\ retries = 3
    /\ fresult.status = "thrown"
    /\ waits = <<1000, 2000, 4000>>


\* C11: only text of a 2xx response that contains '<svg' is returned, and
\* the first success ends the call; a response that is not 2xx, or a body
\* without '<svg', fails the attempt with a FetchError carrying the URL and
\* the status code.
C11_OnlyOkSvgReturned ==
    /\ fresult.status = "returned" =>
          /\ fpc = "done"
          /\ response.status \in 200..299
          /\ \E i \in 1..Len(fresult.value) : fresult.value[i] = "<svg"
          /\ fetches = Len(attemptErrors) + 1
    /\ fpc = "awaitText" => response.status \in 200..299
    /\ (response # NoResponse /\ response.status \notin 200..299) =>
          /\ fpc \in {"backoff", "done"}
          /\ fresult.status # "returned"
          /\ attemptErrors # <<>>
          /\ attemptErrors[Len(attemptErrors)] =
                [name |-> "FetchError", message |-> response.http, url |-> "url",
                 statusCode |-> response.status]
    /\ \A i \in 1..Len(attemptErrors) :
          attemptErrors[i].message = "URL did not return SVG content" =>
              /\ attemptErrors[i].name = "FetchError"
              /\ attemptErrors[i].url = "url"
              /\ attemptErrors[i].statusCode = 200

C11_Witness ==
    /\ fpc = "done"
    /\ fresult.status = "returned"
    /\ Len(attemptErrors) = 2
    /\ attemptErrors[1].statusCode = 404
    /\ attemptErrors[2].message = "URL did not return SVG content"

\* C12: isValidFile decides in this order: no file -> "No file provided";
\* size > 10,485,760 -> "File size exceeds 10MB limit" (exactly 10,485,760
\* passes); a type outside image/svg+xml, text/xml, application/xml together
\* with a name not ending in .svg -> "File must be an SVG file"; else valid.
C12_FileDecision ==
    (upc = "done" /\ util = "isValidFile") =>
        LET n == Len(file.name)
            svgName == n >= 2 /\ file.name[n - 1] = "." /\ file.name[n] = "svg"
            svgType == file.type = "image/svg+xml" \/ file.type = "text/xml"
                          \/ file.type = "application/xml"
        IN  fileResult =
              IF ~file.present THEN [valid |-> FALSE, error |-> "No file provided"]
              ELSE IF file.size > 10485760
              THEN [valid |-> FALSE, error |-> "File size exceeds 10MB limit"]
              ELSE IF ~svgType /\ ~svgName
              THEN [valid |-> FALSE, error |-> "File must be an SVG file"]
              ELSE [valid |-> TRUE, error |-> "null"]

C12_Witness ==
    /\ upc = "done"
    /\ util = "isValidFile"
    /\ file.size = 10485760
    /\ file.type = ""
    /\ file.name = <<"test", ".", "svg">>
    /\ fileResult.valid

\* The reference of an element read as: href if the attribute is present,
\* else xlink:href.
ReferenceIfPresent(img) == IF img.href = Null THEN img.xlink ELSE img.href

\* The dataUrl fields of the records returned, in order.
ReturnedUrls == [k \in 1..Len(eresult.value) |-> eresult.value[k].dataUrl]

C14_CountNeverFails ==
    epc = "counted" =>
        /\ cresult.status = "returned"
        /\ cresult.value =
              IF svgContent.text = "svg" /\ svgContent.wellFormed
              THEN Cardinality(Embedded(svgContent.elements))
              ELSE 0
        /\ LET r == extractImages(svgContent, now, tick)
           IN  cresult.value = IF r.status = "thrown" THEN 0 ELSE Len(r.value)

C14_Witness ==
    /\ epc = "counted"
    /\ svgContent.text = "svg"
    /\ ~svgContent.wellFormed
    /\ cresult.value = 0

\* C15: handleError translates by this table: ValidationError -> its
\* message; FetchError containing CORS or cors -> the CORS text, tested
\* before the timeout test; FetchError containing timeout or Timeout -> the
\* timeout text; other FetchError -> its message, or the fetch-failure text
\* when it is empty; ParseError -> the parse text whatever its message;
\* TypeError containing fetch -> the network text; any other error or a
\* string -> its message, or the unexpected-error text when it has none.
C15_TranslationTable ==
    (upc = "done" /\ util = "handleError" /\ caught.name \notin {"null", "undefined"}) =>
        LET m == caught.message
            cors == Includes(m, "CORS") \/ Includes(m, "cors")
            timeout == Includes(m, "timeout") \/ Includes(m, "Timeout")
        IN  /\ hresult.status = "returned"
            /\ hresult.value =
                  CASE caught.name = "ValidationError" -> m
                    [] caught.name = "FetchError" /\ cors ->
                          "Unable to fetch from URL due to CORS restrictions. The server must allow cross-origin requests."
                    [] caught.name = "FetchError" /\ ~cors /\ timeout ->
                          "Request timed out. Please try again."
                    [] caught.name = "FetchError" /\ ~cors /\ ~timeout ->
                          IF m = ""
                          THEN "Failed to fetch SVG from URL. Please check the URL and try again."
                          ELSE m
                    [] caught.name = "ParseError" ->
                          "Failed to parse SVG content. Please ensure it is valid SVG."
                    [] caught.name = "TypeError" /\ Includes(m, "fetch") ->
                          "Network error occurred. Please check your connection and try again."
                    [] OTHER ->
                          IF m \in {"", "<undefined>"}
                          THEN "An unexpected error occurred. Please try again."
                          ELSE m

C15_Witness ==
    /\ upc = "done"
    /\ util = "handleError"
    /\ caught.name = "FetchError"
    /\ caught.message = "CORS preflight timeout"
    /\ hresult.value = CORS_ERROR

\* C16: generateFilename returns image-{index+1}.{ext}, ext being the text
\* after the "/" of image.format and png without a format:
\* ({format: image/png}, 0) -> image-1.png, ({format: image/jpeg}, 5) ->
\* image-6.jpeg, ({}, 0) -> image-1.png; another index never gives the
\* same filename.
C16_FilenameOfIndex ==
    (upc = "done" /\ util = "generateFilename") =>
        /\ filename = <<"image-", fnIndex + 1, ".", ExtensionOf(fnImage.format)>>
        /\ (fnImage.format = PngFormat /\ fnIndex = 0) =>
              filename = <<"image-", 1, ".", <<"png">> >>
        /\ (fnImage.format = JpegFormat /\ fnIndex = 5) =>
              filename = <<"image-", 6, ".", <<"jpeg">> >>
        /\ (fnImage.format = Undefined /\ fnIndex = 0) =>
              filename = <<"image-", 1, ".", <<"png">> >>
        /\ \A img \in FilenameImages : \A j \in 0..MaxPosition :
              j # fnIndex => generateFilename(img, j) # filename

C16_Witness ==
    /\ upc = "done"
    /\ util = "generateFilename"
    /\ fnImage.format = JpegFormat
    /\ fnIndex = 5
    /\ filename = <<"image-", 6, ".", <<"jpeg">> >>

\* C17: a failure inside generateZip after the emptiness check is logged
\* and replaced: the call fails with the ZIP_GENERATION_FAILED message
\* and the message of the original error does not reach the caller.
C17_FailureReplaced ==
    ( /\ zresult.status = "thrown"
      /\ images.kind = "array"
      /\ Len(images.items) > 0 ) =>
        /\ zpc = "done"
        /\ zresult.error.name = "Error"
        /\ zresult.error.message =
              "Failed to generate ZIP file. Please try downloading images individually."
        /\ logged \in {"No valid images to include in ZIP", "generateAsync failed"}
        /\ zresult.error.message # logged

C17_Witness ==
    /\ zpc = "done"
    /\ zresult.status = "thrown"
    /\ logged = "generateAsync failed"
    /\ Len(zipEntries) = 2
    /\ Len(percents) = 1

\* C18: handleError returns a non-empty text for every value it is given
\* (an instance of any error class with or without a message, null,
\* undefined, a string) and never throws.
C18_Total ==
    (upc = "done" /\ util = "handleError") =>
        /\ hresult.status = "returned"
        /\ hresult.value # ""

\* The positions (from 0) of the embedded image elements, in document order.
EmbeddedPositions(elements) ==
    SelectSeq([i \in 1..Len(elements) |-> i - 1],
              LAMBDA p : IsDataImage(Reference(elements[p + 1])))

\* C19: the ids of the records of one extractImages call are pairwise
\* distinct, also when the clock does not advance during the call, and the
\* id of the record built from the element at position i is img-<ms>-<i>.
C19_IdsDistinct ==
    (epc = "done" /\ eresult.status = "returned") =>
        LET out == eresult.value
            at == EmbeddedPositions(svgContent.elements)
        IN  /\ Len(at) = Len(out)
            /\ \A i, j \in 1..Len(out) : i # j => out[i].id # out[j].id
            /\ \A k \in 1..Len(out) :
                  /\ Len(out[k].id) = 4
                  /\ out[k].id[1] = "img-"
                  /\ out[k].id[2] \in now..(now + MaxImages * tick)
                  /\ out[k].id[3] = "-"
                  /\ out[k].id[4] = at[k]

C19_Witness ==
    /\ epc = "done"
    /\ eresult.status = "returned"
    /\ tick = 0
    /\ Len(svgContent.elements) = 3
    /\ Len(eresult.value) = 2
    /\ eresult.value[1].id = <<"img-", now, "-", 1>>
    /\ eresult.value[2].id = <<"img-", now, "-", 2>>

\* The text of a data URL between its leading data: and its first ";", or
\* its end when it has no ";".
MimeOf(dataUrl) ==
    SubSeq(dataUrl, 3,
           IF IndexOf(dataUrl, ";") = 0 THEN Len(dataUrl) ELSE IndexOf(dataUrl, ";") - 1)

\* C20: the format of every record returned is the text of its dataUrl
\* between the leading data: and the first ";", also when that text holds
\* a ":".
C20_FormatIsMime ==
    (epc = "done" /\ eresult.status = "returned") =>
        \A k \in 1..Len(eresult.value) :
            eresult.value[k].format = MimeOf(eresult.value[k].dataUrl)

\* The attempts (from 1) whose timeout timer is pending.
ArmedTimers == {k \in 1..Len(timers) : timers[k] = "armed"}

\* C23: every attempt arms exactly one timeout timer and cancels it on
\* every path out of the attempt, so at most one timer is pending at any
\* moment, and only while the attempt awaits fetch(): none is pending
\* during a backoff wait or after the call has returned or failed; an
\* attempt fails as timed out only when its own timer has fired.
C23_TimerLifecycle ==
    /\ Len(timers) = fetches
    /\ Cardinality(ArmedTimers) <= 1
    /\ ArmedTimers # {} => (ArmedTimers = {Len(timers)} /\ fpc = "awaitFetch")
    /\ fpc \in {"backoff", "done", "awaitText"} => ArmedTimers = {}
    /\ fpc \in {"backoff", "done"} => Len(attemptErrors) \in {fetches - 1, fetches}
    /\ \A k \in 1..Len(attemptErrors) :
          attemptErrors[k].message = TIMEOUT_ERROR <=> timers[k] = "fired"

C23_Witness ==
    /\ fpc = "backoff"
    /\ timers = <<"fired", "cleared">>
    /\ attemptErrors[1].message = TIMEOUT_ERROR
    /\ attemptErrors[2].statusCode = 404

\* C25: for a valid URL and any value of retries, negative ones included,
\* the call issues at least one fetch, and when it fails it fails with the
\* error of an attempt that ran, never with undefined.
C25_FailsWithAnAttemptsError ==
    (fpc = "done" /\ urlValid) =>
        /\ fetches >= 1
        /\ fresult.status = "thrown" =>
              /\ fresult.error # UndefinedValue
              /\ \E k \in 1..Len(attemptErrors) : attemptErrors[k] = fresult.error

\* The addresses an array holds.
AddressesOf(list) == {list[i] : i \in 1..Len(list)}

\* C21: records are never changed after their creation: generateZip (with
\* the generateFilename calls it makes) and downloadSingleImage leave the
\* array they were given and every field of every record as they were, and
\* every extractImages call returns a new array of new records, which
\* shares no record with the array of another call.
C21_RecordsNeverMutated ==
    /\ [](\A j, k \in 1..Len(lists) :
            j # k => AddressesOf(lists[j]) \cap AddressesOf(lists[k]) = {})
    /\ [](\A k \in 1..Len(lists) : Cardinality(AddressesOf(lists[k])) = Len(lists[k]))
    /\ [](packaged # 0 => images.items = Deref(heap, lists[packaged]))
    /\ [][ /\ \A a \in 1..Len(heap) : Len(heap') >= a /\ heap'[a] = heap[a]
           /\ \A k \in 1..Len(lists) : Len(lists') >= k /\ lists'[k] = lists[k]
           /\ packaged # 0 => images' = images ]_vars

C21_Witness ==
    /\ lists = << <<1, 2>>, <<3, 4>> >>
    /\ heap[1] = heap[3]
    /\ packaged = 1
    /\ zpc = "done"
    /\ zresult.status = "returned"
    /\ download.image = 2

\* C24: when the whole result of an extraction is packaged and no record is
\* dropped, the archive entry of a record has the name downloadSingleImage
\* gives the same record, image-{record.index+1}.{ext}, also when the
\* document mixes external and embedded image elements.
C24_FilenamesAgree ==
    ( /\ packaged # 0
      /\ zpc \in {"generating", "generated", "done"}
      /\ Len(zipEntries) = Len(lists[packaged])
      /\ download.image # 0 ) =>
        \A i \in 1..Len(lists[packaged]) :
            lists[packaged][i] = download.image =>
                /\ download.filename =
                      <<"image-", heap[download.image].index + 1, ".",
                        ExtensionOf(heap[download.image].format)>>
                /\ zipEntries[i].name = download.filename

\* What the local variables f of a call are when they depend on nothing
\* but the call's arguments and the responses the call itself received:
\* the attempt counter counts the call's own failed attempts, lastError is
\* the error of its own last failed attempt, every attempt armed one timer
\* and none is pending outside an await of fetch(), the waits are its own
\* backoff waits, the outcome is its own response's content or its own
\* last error; the archive, the warnings and the progress reports are
\* those of its own images and its own progress events.
OwnOutcome(f) ==
    LET failed == Len(f.attemptErrors)
    IN  /\ f.lastError = IF failed = 0 THEN UndefinedValue ELSE f.attemptErrors[failed]
        /\ f.fpc \in {"idle", "start"} => (f.attempt = 0 /\ f.fetches = 0 /\ failed = 0)
        /\ f.fpc \in {"awaitFetch", "awaitText"} =>
              (f.attempt = failed /\ f.fetches = failed + 1)
        /\ f.fpc = "backoff" => (f.attempt = failed - 1 /\ f.fetches = failed)
        /\ f.fpc = "done" => f.attempt \in {failed - 1, failed}
        /\ Len(f.timers) = f.fetches
        /\ \A k \in 1..Len(f.timers) :
              f.timers[k] = "armed" => (k = Len(f.timers) /\ f.fpc = "awaitFetch")
        /\ f.waits = [k \in 1..Len(f.waits) |-> 1000 * 2^(k - 1)]
        /\ f.fetches <= (IF f.retries < 0 THEN 0 ELSE f.retries + 1)
        /\ (f.fpc = "done" /\ f.fresult.status = "thrown") =>
              f.fresult.error = IF f.urlValid THEN f.lastError
                                ELSE ValidationError(INVALID_URL)
        /\ (f.fpc = "done" /\ f.fresult.status = "returned") =>
              (f.response.status \in 200..299 /\ IncludesSvg(f.fresult.value))
        /\ f.fpc = "done" <=> f.fresult.status # "pending"
        /\ (f.zpc \in {"generating", "generated"} \/ f.zresult.status = "returned"
               \/ f.logged = "generateAsync failed") =>
              /\ f.zipEntries = addFiles(<<>>, validImages(f.images.items), 0)
              /\ f.warnings = skipped(f.images.items, 0)
        /\ f.progressCalls =
              IF f.hasCallback THEN [i \in 1..Len(f.percents) |-> MathRound(f.percents[i])]
              ELSE <<>>
        /\ f.zpc = "done" <=> f.zresult.status # "pending"
        /\ f.zresult.status = "thrown" =>
              f.zresult.error.message =
                 IF NoImages(f.images) THEN "No images provided for ZIP generation"
                 ELSE ZIP_GENERATION_FAILED

\* C22: two calls in flight share no variable: however their steps
\* interleave at the awaits, the attempt counter, the last error, the timers
\* and the outcome of each call are those of its own arguments and its own
\* responses, as when it runs alone.
C22_CallsShareNothing == OwnOutcome(Frame) /\ OwnOutcome(suspended)

C22_Witness ==
    /\ fpc = "done"
    /\ retries = 1
    /\ attempt = 2
    /\ fresult.status = "thrown"
    /\ fresult.error.statusCode = 404
    /\ suspended.fpc = "backoff"
    /\ suspended.attempt = 0
    /\ suspended.lastError.message = TIMEOUT_ERROR

====
